---- MODULE Spec2Model ----
(***************************************************************************)
(* State-machine model of the fluent-notes-dapp client:                    *)
(*   ConnectWallet.jsx  (wallet session / authentication),                 *)
(*   NotesList.jsx: App (view state machine, save/refresh coordination),   *)
(*   NoteEditor.jsx     (save lifecycle of one editor instance),           *)
(*   NotesList.jsx: NotesList (the cached list of notes and its fetches),  *)
(*   NotesList.jsx: ContractDiagnostics (the probe and its report).        *)
(* The wallet extension and the contract are the environment: their        *)
(* answers are inputs chosen with \E.                                      *)
(***************************************************************************)
EXTENDS Integers, Sequences, FiniteSets, TLC

\* ---------------------------------------------------------------- bounds
MaxAttempts == 2      \* authentication attempts that may be pending at once
MaxTx       == 1      \* unresolved save transactions while following their outcome
MaxWrites   == 2      \* unresolved save transactions while counting them per target
MaxTimers   == 1      \* timeouts (onSaved, refresh, cancel) that may be pending at once
MaxNoteId   == 1      \* note ids are 0..MaxNoteId
MaxPhrases  == 2      \* tested phrases that one error message may contain
MaxFetches  == 2      \* fetchNotes calls that may be awaiting the contract at once
MaxProbes   == 2      \* runDiagnostics calls that may be pending at once

\* ---------------------------------------------------------------- values
Accounts  == {"a1", "a2"}      \* addresses as the wallet reports them (lower case)
NoAccount == ""                \* useState('') / onConnected('', null)
Null      == "null"            \* a null provider
NoId      == -1                \* selectedNoteId === null
NoteIds   == 0..MaxNoteId
Titles    == {"", " ", "T"}    \* title field: empty, blank, or some text

\* ethers.utils.verifyMessage returns the checksummed (mixed-case) address
Checksum(a) ==
  CASE a = "a1" -> "A1" [] a = "a2" -> "A2" [] OTHER -> a

\* String.prototype.toLowerCase on an address
ToLowerCase(s) ==
  CASE s = "A1" -> "a1" [] s = "A2" -> "a2" [] OTHER -> s

\* new ethers.providers.Web3Provider(window.ethereum): an object different
\* from the one the app currently holds
FreshProvider(cur) == IF cur = "p1" THEN "p2" ELSE "p1"

\* Date.now(): a value different from the one currently stored
Now(cur) == IF cur = "t1" THEN "t2" ELSE "t1"

RemoveAt(s, i) == SubSeq(s, 1, i - 1) \o SubSeq(s, i + 1, Len(s))

VARIABLES
  walletActive,          \* environment: the account selected in the wallet
  cwAccount,             \* ConnectWallet: account
  isConnecting,          \* ConnectWallet: isConnecting
  cwError,               \* ConnectWallet: error (which message)
  manuallyDisconnected,  \* ConnectWallet: manuallyDisconnected
  attempts,              \* pending connectWallet / handleAccountsChanged calls
  awaitingConnect,       \* history: disconnect() happened, no connect() since
  sessionVia,            \* history: what backed the last call of onConnected
  networkReady,          \* history: switchToFluentNetwork has returned true
  appAccount,            \* App: account
  appProvider,           \* App: provider
  noteState,             \* App: noteState
  edTitle,               \* NoteEditor: title
  edLoading,             \* NoteEditor: loading
  edSaving,              \* NoteEditor: saving
  edError,               \* NoteEditor: error (which message)
  txs,                   \* handleSubmit calls awaiting dispatch / confirmation
  savedTimers,           \* pending setTimeout(onSaved, 2000): the saved ids
  refresh1,              \* pending first refresh timeouts (2 s)
  refresh2,              \* pending second refresh timeouts (+4 s)
  cancelTimers,          \* pending setTimeout(onCancel, 300)
  notes,                 \* NotesList: notes (the cached list)
  listLoading,           \* NotesList: loading
  listError,             \* NotesList: error (which message)
  fetches,               \* fetchNotes calls awaiting the contract
  lastAnswer,            \* history: how the fetchNotes call that ended last ended
  listSelectedNoteId,    \* NotesList: selectedNoteId (the highlighted entry)
  showDiagnostics,       \* App: contractStatus.showDiagnostics
  diagnosticState,       \* ContractDiagnostics: diagnosticState
  probes,                \* runDiagnostics calls in progress
  chain                  \* environment: the titles the contract stores, by id

walletVars == <<walletActive, cwAccount, isConnecting, cwError, manuallyDisconnected,
                attempts, awaitingConnect, sessionVia, networkReady>>
appVars    == <<appAccount, appProvider, noteState>>
editorVars == <<edTitle, edLoading, edSaving, edError>>
txVars     == <<txs, savedTimers, refresh1, refresh2, cancelTimers>>
listVars   == <<notes, listLoading, listError, fetches, lastAnswer,
                listSelectedNoteId>>
diagVars   == <<showDiagnostics, diagnosticState, probes>>
vars       == <<walletVars, appVars, editorVars, txVars, listVars, diagVars, chain>>

\* ------------------------------------------------------------ view state
Key(kind, n) == <<kind, n>>
FreshKey     == Key("fresh", NoId)     \* a key that embeds Date.now()

\* renderMainContent: which of the spec's states the App shows
NoSession  == appAccount = NoAccount
Browsing   == ~NoSession /\ ~noteState.isEditing /\ noteState.selectedNoteId = NoId
Viewing(n) == ~NoSession /\ ~noteState.isEditing /\ noteState.selectedNoteId = n /\ n # NoId
Creating   == ~NoSession /\ noteState.isEditing /\ noteState.selectedNoteId = NoId
Editing(n) == ~NoSession /\ noteState.isEditing /\ noteState.selectedNoteId = n /\ n # NoId

\* a NoteEditor is rendered for (account a, note state ns)
EditorShown(a, ns) == a # NoAccount /\ (ns.isEditing \/ ns.selectedNoteId # NoId)
EditorMounted      == EditorShown(appAccount, noteState)

\* React keeps the editor instance only while its key is unchanged
Remounts(ns) == ns.editorKey = FreshKey \/ ns.editorKey # noteState.editorKey

\* Effect of rendering the App with account a and note state ns on the editor
\* instance and on the handleSubmit calls of the instance it replaces:
\* a new instance starts with empty fields and, for an existing note, loads it;
\* state updates of a replaced instance are dropped.
Render(a, ns) ==
  IF a # appAccount \/ Remounts(ns) \/ ~EditorShown(a, ns)
  THEN /\ edTitle'   = ""
       /\ edSaving'  = FALSE
       /\ edError'   = ""
       /\ edLoading' = (EditorShown(a, ns) /\ ns.selectedNoteId # NoId)
       /\ txs' = [i \in DOMAIN txs |-> [txs[i] EXCEPT !.live = FALSE]]
  ELSE UNCHANGED <<editorVars, txs>>

\* App.handleConnect(walletAddress, ethersProvider)
handleConnect_KeepsNoteState(a, p) ==
  /\ appAccount'  = a
  /\ appProvider' = p
  /\ noteState'   = noteState
  /\ Render(a, noteState)
handleConnect(a, p) ==
  LET ns == [selectedNoteId |-> NoId, isEditing |-> FALSE,
             editorKey |-> Key("wallet-change", NoId),
             refreshTrigger |-> "undefined"]
  IN /\ appAccount'  = a
     /\ appProvider' = p
     /\ noteState'   = ns
     /\ Render(a, ns)

\* ------------------------------------------------------- ConnectWallet.jsx
\* one pending call of connectWallet ("connect") or handleAccountsChanged
\* ("change"): where it waits, the account it authenticates, the account the
\* wallet signs with, and the wallet's last answer about the network
Attempt(kind, pc, address, signer, net) ==
  [kind |-> kind, pc |-> pc, address |-> address, signer |-> signer, net |-> net]

\* what backs a call of onConnected: the caller, the wallet's answer to the
\* signature request and the account that signed
Proof(by, answer, signer) == [by |-> by, answer |-> answer, signer |-> signer]

\* the accountsChanged listener is registered by the effect only while
\* manuallyDisconnected is false
ListenerRegistered == ~manuallyDisconnected

\* connectWallet, up to the first await (click on "Connect Wallet")
connectWallet ==
  /\ cwAccount = NoAccount
  /\ ~isConnecting
  /\ Len(attempts) < MaxAttempts
  /\ isConnecting' = TRUE
  /\ cwError' = ""
  /\ attempts' = Append(attempts,
                        Attempt("connect", "switching", NoAccount, NoAccount, "none"))
  /\ awaitingConnect' = FALSE
  /\ UNCHANGED <<walletActive, cwAccount, manuallyDisconnected, sessionVia,
                 networkReady, appVars, editorVars, txVars>>

\* switchToFluentNetwork: result of wallet_switchEthereumChain
\* r: "ok", "unknown" (error code 4902), "rejected" (any other error)
SwitchResult(r) ==
  CASE r = "ok" -> "true" [] r = "unknown" -> "add" [] OTHER -> "false"

\* switchToFluentNetwork: result of wallet_addEthereumChain, r: "ok", "rejected"
AddResult_Ignored(r) == "true"
AddResult(r) == IF r = "ok" THEN "true" ELSE "false"

\* connectWallet after `await switchToFluentNetwork()`; r is the wallet's answer
AfterSwitch(i, res, r, err) ==
  IF res = "true"
  THEN /\ attempts' = [attempts EXCEPT ![i].pc = "accounts", ![i].net = r]
       /\ networkReady' = TRUE
       /\ UNCHANGED <<isConnecting, cwError>>
  ELSE IF res = "add"
  THEN /\ attempts' = [attempts EXCEPT ![i].pc = "adding", ![i].net = r]
       /\ UNCHANGED <<isConnecting, cwError, networkReady>>
  ELSE /\ attempts' = RemoveAt(attempts, i)
       /\ isConnecting' = FALSE
       /\ cwError' = err
       /\ UNCHANGED networkReady

SwitchResponse(i, r) ==
  /\ attempts[i].pc = "switching"
  /\ AfterSwitch(i, SwitchResult(r), r, "switch")
  /\ UNCHANGED <<walletActive, cwAccount, manuallyDisconnected, awaitingConnect,
                 sessionVia, appVars, editorVars, txVars>>

AddResponse(i, r) ==
  /\ attempts[i].pc = "adding"
  /\ AfterSwitch(i, AddResult(r), r, "add")
  /\ UNCHANGED <<walletActive, cwAccount, manuallyDisconnected, awaitingConnect,
                 sessionVia, appVars, editorVars, txVars>>

\* connectWallet after `await provider.send("eth_requestAccounts", [])`
\* r: "granted" (the active account), "empty" (no account), "rejected" (throws)
AccountsResponse(i, r) ==
  /\ attempts[i].pc = "accounts"
  /\ IF r = "granted"
     THEN /\ attempts' = [attempts EXCEPT ![i].pc = "sign_req",
                                          ![i].address = walletActive]
          /\ UNCHANGED <<isConnecting, cwError>>
     ELSE /\ attempts' = RemoveAt(attempts, i)
          /\ isConnecting' = FALSE
          /\ cwError' = IF r = "rejected" THEN "connect" ELSE cwError
  /\ UNCHANGED <<walletActive, cwAccount, manuallyDisconnected, awaitingConnect,
                 sessionVia, networkReady, appVars, editorVars, txVars>>

\* requestSignature: signer.signMessage resolves the signing account
\* (eth_accounts) and sends personal_sign for it
SignRequest(i) ==
  /\ attempts[i].pc = "sign_req"
  /\ attempts' = [attempts EXCEPT ![i].pc = "signing", ![i].signer = walletActive]
  /\ UNCHANGED <<walletActive, cwAccount, isConnecting, cwError, manuallyDisconnected,
                 awaitingConnect, sessionVia, networkReady, appVars, editorVars, txVars>>

\* requestSignature: the value it returns once the wallet answered
\* r: "approved" (a signature by `signer`), "rejected" (error 4001)
requestSignature_NoCompare(address, signer, r) == r = "approved"
requestSignature(address, signer, r) ==
  /\ r = "approved"
  /\ ToLowerCase(Checksum(signer)) = ToLowerCase(address)

\* requestSignature: the error it reports when it returns false
SignatureError(r) == IF r = "approved" THEN "verify" ELSE "rejected"

\* connectWallet / handleAccountsChanged after `await requestSignature(...)`
SignResponse(i, r) ==
  /\ attempts[i].pc = "signing"
  /\ attempts' = RemoveAt(attempts, i)
  /\ isConnecting' = FALSE
  /\ IF requestSignature(attempts[i].address, attempts[i].signer, r)
     THEN /\ cwAccount' = attempts[i].address
          /\ handleConnect(attempts[i].address, FreshProvider(appProvider))
          /\ sessionVia' = Proof(attempts[i].kind, r, attempts[i].signer)
          /\ UNCHANGED cwError
     ELSE /\ cwAccount' = IF attempts[i].kind = "connect" THEN NoAccount ELSE cwAccount
          /\ cwError' = SignatureError(r)
          /\ UNCHANGED <<sessionVia, appVars, editorVars, txs>>
  /\ UNCHANGED <<walletActive, manuallyDisconnected, awaitingConnect, networkReady,
                 savedTimers, refresh1, refresh2, cancelTimers>>

\* handleAccountsChanged(accounts), up to `await requestSignature(...)`
handleAccountsChanged(accs) ==
  /\ cwAccount' = NoAccount
  /\ IF Len(accs) > 0 /\ ~manuallyDisconnected
     THEN /\ isConnecting' = TRUE
          /\ cwError' = ""
          /\ attempts' = Append(attempts,
                                Attempt("change", "sign_req", accs[1], NoAccount, "none"))
     ELSE UNCHANGED <<isConnecting, cwError, attempts>>

\* the wallet emits accountsChanged(accs); accs is <<>> or <<b>>
AccountsChanged(accs) ==
  /\ (Len(accs) > 0 /\ ListenerRegistered) => Len(attempts) < MaxAttempts
  /\ IF Len(accs) > 0
     THEN accs[1] # walletActive /\ walletActive' = accs[1]
     ELSE UNCHANGED walletActive
  /\ IF ListenerRegistered
     THEN handleAccountsChanged(accs)
     ELSE UNCHANGED <<cwAccount, isConnecting, cwError, attempts>>
  /\ UNCHANGED <<manuallyDisconnected, awaitingConnect, sessionVia, networkReady,
                 appVars, editorVars, txVars>>

\* disconnectWallet (menu item, shown while the component has an account)
disconnectWallet ==
  /\ cwAccount # NoAccount
  /\ cwAccount' = NoAccount
  /\ manuallyDisconnected' = TRUE
  /\ awaitingConnect' = TRUE
  /\ sessionVia' = Proof("disconnect", "none", NoAccount)
  /\ handleConnect(NoAccount, Null)
  /\ UNCHANGED <<walletActive, isConnecting, cwError, attempts, networkReady,
                 savedTimers, refresh1, refresh2, cancelTimers>>

\* ---------------------------------------------------------- NotesList.jsx: App
\* JavaScript truthiness of a note id: null and 0 are falsy
Truthy(n) == n # NoId /\ n # 0

\* a || b on note ids
OrElse(a, b) == IF Truthy(a) THEN a ELSE b

\* App.handleSelectNote(noteId), reached from a click on a list entry
handleSelectNote_KeepsMode(n) ==
  LET ns == [selectedNoteId |-> n, isEditing |-> noteState.isEditing,
             editorKey |-> Key("view", n), refreshTrigger |-> "undefined"]
  IN /\ ~NoSession
     /\ noteState' = ns
     /\ Render(appAccount, ns)
     /\ UNCHANGED <<walletVars, appAccount, appProvider,
                    savedTimers, refresh1, refresh2, cancelTimers>>
handleSelectNote(n) ==
  LET ns == [selectedNoteId |-> n, isEditing |-> FALSE,
             editorKey |-> Key("view", n), refreshTrigger |-> "undefined"]
  IN /\ ~NoSession
     /\ noteState' = ns
     /\ Render(appAccount, ns)
     /\ UNCHANGED <<walletVars, appAccount, appProvider,
                    savedTimers, refresh1, refresh2, cancelTimers>>

\* App.handleCreateNote ("New Note" / "Create New Note" buttons, which are
\* rendered and enabled only with an account)
handleCreateNote_WithoutAccount ==
  LET ns == [selectedNoteId |-> NoId, isEditing |-> TRUE,
             editorKey |-> FreshKey, refreshTrigger |-> "undefined"]
  IN /\ noteState' = ns
     /\ Render(appAccount, ns)
     /\ UNCHANGED <<walletVars, appAccount, appProvider,
                    savedTimers, refresh1, refresh2, cancelTimers>>
handleCreateNote ==
  LET ns == [selectedNoteId |-> NoId, isEditing |-> TRUE,
             editorKey |-> FreshKey, refreshTrigger |-> "undefined"]
  IN /\ ~NoSession
     /\ noteState' = ns
     /\ Render(appAccount, ns)
     /\ UNCHANGED <<walletVars, appAccount, appProvider,
                    savedTimers, refresh1, refresh2, cancelTimers>>

\* App.handleEditNote: does nothing without a selected note
handleEditNote_NoSelectionCheck ==
  LET ns == [noteState EXCEPT !.isEditing = TRUE, !.editorKey = FreshKey]
  IN /\ noteState' = ns
     /\ Render(appAccount, ns)
handleEditNote ==
  LET ns == [noteState EXCEPT !.isEditing = TRUE, !.editorKey = FreshKey]
  IN IF noteState.selectedNoteId # NoId
     THEN /\ noteState' = ns
          /\ Render(appAccount, ns)
     ELSE UNCHANGED <<noteState, editorVars, txs>>

\* the "Edit" button, which the read-only view of a note shows
EditClick ==
  /\ ~NoSession
  /\ ~noteState.isEditing
  /\ noteState.selectedNoteId # NoId
  /\ handleEditNote
  /\ UNCHANGED <<walletVars, appAccount, appProvider,
                 savedTimers, refresh1, refresh2, cancelTimers>>

\* App.handleNoteSaved(noteId): the state update, then the first refresh timer
handleNoteSaved_KeepsEditing(n) ==
  LET sel == OrElse(n, noteState.selectedNoteId)
      ns  == [noteState EXCEPT !.selectedNoteId = sel,
                               !.editorKey = Key("saved", OrElse(sel, NoId))]
  IN /\ noteState' = ns
     /\ Render(appAccount, ns)
     /\ refresh1' = refresh1 + 1
handleNoteSaved_ClearsSelection(n) ==
  LET ns == [noteState EXCEPT !.selectedNoteId = NoId,
                              !.isEditing = FALSE,
                              !.editorKey = Key("saved", NoId)]
  IN /\ noteState' = ns
     /\ Render(appAccount, ns)
     /\ refresh1' = refresh1 + 1
handleNoteSaved(n) ==
  LET sel == OrElse(n, noteState.selectedNoteId)
      ns  == [noteState EXCEPT !.selectedNoteId = sel,
                               !.isEditing = FALSE,
                               !.editorKey = Key("saved", OrElse(sel, NoId))]
  IN /\ noteState' = ns
     /\ Render(appAccount, ns)
     /\ refresh1' = refresh1 + 1

\* App.handleCancelEdit: all three branches clear isEditing and keep the selection
handleCancelEdit_ClearsSelection ==
  LET ns == [noteState EXCEPT !.isEditing = FALSE, !.selectedNoteId = NoId,
                              !.editorKey = FreshKey]
  IN /\ noteState' = ns
     /\ Render(appAccount, ns)
handleCancelEdit ==
  LET ns == [noteState EXCEPT !.isEditing = FALSE, !.editorKey = FreshKey]
  IN /\ noteState' = ns
     /\ Render(appAccount, ns)

\* the setTimeout(onSaved, 2000) of the oldest confirmed save fires
SavedTimerFires ==
  /\ Len(savedTimers) > 0
  /\ handleNoteSaved(Head(savedTimers))
  /\ savedTimers' = Tail(savedTimers)
  /\ UNCHANGED <<walletVars, appAccount, appProvider, refresh2, cancelTimers>>

\* first refresh timeout of handleNoteSaved (2 s): refresh signal, second timer
Refresh1Fires_NoSecond ==
  /\ refresh1 > 0
  /\ noteState' = [noteState EXCEPT !.refreshTrigger = Now(noteState.refreshTrigger)]
  /\ refresh1' = refresh1 - 1
  /\ UNCHANGED <<walletVars, appAccount, appProvider, editorVars, txs,
                 savedTimers, refresh2, cancelTimers>>
Refresh1Fires ==
  /\ refresh1 > 0
  /\ noteState' = [noteState EXCEPT !.refreshTrigger = Now(noteState.refreshTrigger)]
  /\ refresh1' = refresh1 - 1
  /\ refresh2' = refresh2 + 1
  /\ UNCHANGED <<walletVars, appAccount, appProvider, editorVars, txs,
                 savedTimers, cancelTimers>>

\* second refresh timeout of handleNoteSaved (+4 s): refresh signal
Refresh2Fires_FromStaleState ==
  /\ refresh2 > 0
  /\ noteState' = [selectedNoteId |-> NoId, isEditing |-> FALSE,
                   editorKey |-> noteState.editorKey,
                   refreshTrigger |-> Now(noteState.refreshTrigger)]
  /\ refresh2' = refresh2 - 1
  /\ UNCHANGED <<walletVars, appAccount, appProvider, editorVars, txs,
                 savedTimers, refresh1, cancelTimers>>
Refresh2Fires ==
  /\ refresh2 > 0
  /\ noteState' = [noteState EXCEPT !.refreshTrigger = Now(noteState.refreshTrigger)]
  /\ refresh2' = refresh2 - 1
  /\ UNCHANGED <<walletVars, appAccount, appProvider, editorVars, txs,
                 savedTimers, refresh1, cancelTimers>>

\* the setTimeout(onCancel, 300) of NoteEditor.handleCancel fires
CancelTimerFires_DropsSaves ==
  LET ns == [noteState EXCEPT !.isEditing = FALSE, !.editorKey = FreshKey]
  IN /\ cancelTimers > 0
     /\ noteState' = ns
     /\ edTitle' = ""
     /\ edSaving' = FALSE
     /\ edError' = ""
     /\ edLoading' = (EditorShown(appAccount, ns) /\ ns.selectedNoteId # NoId)
     /\ txs' = <<>>
     /\ cancelTimers' = cancelTimers - 1
     /\ UNCHANGED <<walletVars, appAccount, appProvider, savedTimers, refresh1, refresh2>>
CancelTimerFires ==
  /\ cancelTimers > 0
  /\ handleCancelEdit
  /\ cancelTimers' = cancelTimers - 1
  /\ UNCHANGED <<walletVars, appAccount, appProvider, savedTimers, refresh1, refresh2>>

\* a refresh signal: a step that gives refreshTrigger a new Date.now() value
RefreshSignal ==
  /\ noteState'.refreshTrigger # noteState.refreshTrigger
  /\ noteState'.refreshTrigger # "undefined"

\* NotesList, effect on [refreshTrigger, provider, account, ...]: the render
\* after this step calls fetchNotes from that effect
RefreshEffectFetches ==
  /\ <<noteState.refreshTrigger, appProvider, appAccount>>'
        # <<noteState.refreshTrigger, appProvider, appAccount>>
  /\ noteState'.refreshTrigger # "undefined"
  /\ appProvider' # Null
  /\ appAccount' # NoAccount

\* refresh signals that the pending timeouts will still emit: two for each
\* onSaved and first refresh timeout, one for each second refresh timeout
OwedSignals == 2 * (Len(savedTimers) + refresh1) + refresh2

\* ------------------------------------------------------------ NoteEditor.jsx
\* String.prototype.trim on a title
Trim(t) == IF t = " " THEN "" ELSE t

Tx(op, target, title, from, st, live) ==
  [op |-> op, target |-> target, title |-> title, from |-> from, st |-> st,
   live |-> live]

\* timeouts set and not yet fired
PendingTimers == Len(savedTimers) + refresh1 + refresh2 + cancelTimers

\* typing into the title input of the form (not rendered while loading)
SetTitle(t) ==
  /\ EditorMounted
  /\ noteState.isEditing
  /\ ~edLoading
  /\ t # edTitle
  /\ edTitle' = t
  /\ UNCHANGED <<walletVars, appVars, edLoading, edSaving, edError, txVars>>

\* loadNote after `await contract.getNote(noteId)`
\* r: "ok" (the stored title t), "failed" (the call throws)
LoadResponse(r, t) ==
  /\ EditorMounted
  /\ edLoading
  /\ edLoading' = FALSE
  /\ IF r = "ok"
     THEN edTitle' = t /\ UNCHANGED edError
     ELSE edError' = "load" /\ UNCHANGED edTitle
  /\ UNCHANGED <<walletVars, appVars, edSaving, txVars>>

\* NoteEditor.handleCancel: starts the 300 ms timer
handleCancel ==
  /\ EditorMounted
  /\ noteState.isEditing
  /\ ~edLoading
  /\ PendingTimers < MaxTimers
  /\ cancelTimers' = cancelTimers + 1
  /\ UNCHANGED <<walletVars, appVars, editorVars, txs, savedTimers, refresh1, refresh2>>

\* handleSubmit: the guard `!provider || !account || !contractAddress`
\* (the contract address is a non-empty configuration constant)
Unauthenticated_AccountOnly(provider, account) == account = NoAccount
Unauthenticated(provider, account) == provider = Null \/ account = NoAccount

\* handleSubmit up to the dispatch of createNote / updateNote, for an editor
\* rendered with props (provider, account, noteId, readOnly)
handleSubmit_IgnoresReadOnly(provider, account, noteId, readOnly) ==
  /\ UNCHANGED <<walletVars, appVars, edTitle, edLoading,
                 savedTimers, refresh1, refresh2, cancelTimers>>
  /\ IF Trim(edTitle) = ""
     THEN edError' = "title" /\ UNCHANGED <<edSaving, txs>>
     ELSE IF Unauthenticated(provider, account)
     THEN edError' = "connect" /\ UNCHANGED <<edSaving, txs>>
     ELSE /\ edSaving' = TRUE
          /\ edError' = ""
          /\ txs' = Append(txs, Tx(IF noteId = NoId THEN "create" ELSE "update",
                                   noteId, edTitle, account, "sending", TRUE))
handleSubmit(provider, account, noteId, readOnly) ==
  /\ UNCHANGED <<walletVars, appVars, edTitle, edLoading,
                 savedTimers, refresh1, refresh2, cancelTimers>>
  /\ IF readOnly
     THEN UNCHANGED <<edSaving, edError, txs>>
     ELSE IF Trim(edTitle) = ""
     THEN edError' = "title" /\ UNCHANGED <<edSaving, txs>>
     ELSE IF Unauthenticated(provider, account)
     THEN edError' = "connect" /\ UNCHANGED <<edSaving, txs>>
     ELSE /\ edSaving' = TRUE
          /\ edError' = ""
          /\ txs' = Append(txs, Tx(IF noteId = NoId THEN "create" ELSE "update",
                                   noteId, edTitle, account, "sending", TRUE))

\* submit of the form as the App renders it: the button exists in edit mode
\* and is disabled while saving or without an account; at most cap calls of
\* handleSubmit are followed at once
Submit(cap) ==
  /\ EditorMounted
  /\ noteState.isEditing
  /\ ~edLoading
  /\ ~(edSaving \/ appAccount = NoAccount)
  /\ Len(txs) < cap
  /\ handleSubmit(appProvider, appAccount, noteState.selectedNoteId, FALSE)

\* the phrases handleSubmit looks for in error messages with includes()
Phrases == {"user rejected", "note does not exist", "registered",
            "execution reverted", "UNPREDICTABLE_GAS_LIMIT", "insufficient funds",
            "contract not responding", "contract address is invalid"}

\* an error message: whether it is there (a non-empty string), which of the
\* phrases it contains, and its text where the code itself wrote it
Msg(has, text) == [present |-> TRUE, has |-> has, text |-> text]
Absent         == [present |-> FALSE, has |-> {}, text |-> ""]
NoReceipt      == -1

\* an error thrown by createNote / updateNote / tx.wait():
\* err.error.message, err.message, err.receipt.status
Err(nested, message, receipt) ==
  [nested |-> nested, message |-> message, receipt |-> receipt]

PhraseSets == {h \in SUBSET Phrases : Cardinality(h) <= MaxPhrases}
Msgs       == {Absent} \cup {Msg(h, "text of the wallet") : h \in PhraseSets}
Errors     == {Err(n, m, r) : n \in Msgs, m \in Msgs, r \in {NoReceipt, 0, 1}}

\* the two failures of an ordinary save: the user declines the transaction in
\* the wallet; the transaction is mined with status 0
UserRejected  == Err(Absent, Msg({"user rejected"}, "text of the wallet"), NoReceipt)
MinedFailed   == Err(Absent, Msg({}, "text of the wallet"), 0)
TypicalErrors == {UserRejected, MinedFailed}

\* handleSubmit, inner catch: the error it throws to the outer catch
InnerCatch(innerErr) ==
  IF innerErr.nested.present
  THEN Err(Absent, innerErr.nested, NoReceipt)
  ELSE IF innerErr.message.present /\ "user rejected" \in innerErr.message.has
  THEN Err(Absent, Msg({}, "Transaction was rejected in your wallet."), NoReceipt)
  ELSE IF innerErr.message.present /\ "note does not exist" \in innerErr.message.has
  THEN Err(Absent, Msg({}, "Note does not exist or you don't have permission to edit it."),
           NoReceipt)
  ELSE IF innerErr.message.present /\ "registered" \in innerErr.message.has
  THEN Err(Absent, Msg({"registered"},
                       "Your wallet isn't correctly registered with the contract."),
           NoReceipt)
  ELSE innerErr

\* handleSubmit, outer catch: the part of errorMessage that tells failures apart
OuterCatch(err) ==
  IF err.receipt = 0 THEN "failed during execution"
  ELSE IF err.message.present /\ "execution reverted" \in err.message.has
  THEN "rejected by the smart contract"
  ELSE IF err.message.present /\ "UNPREDICTABLE_GAS_LIMIT" \in err.message.has
  THEN "gas estimation failed"
  ELSE IF err.message.present /\ "insufficient funds" \in err.message.has
  THEN "not enough ETH"
  ELSE IF err.message.present /\ "contract not responding" \in err.message.has
  THEN "contract is not responding"
  ELSE IF err.message.present /\ "contract address is invalid" \in err.message.has
  THEN "invalid address format"
  ELSE IF err.message.present THEN err.message.text
  ELSE "Unknown error occurred"

\* the message handleSubmit reports for an error thrown inside the inner try
ErrorMessage(e) == OuterCatch(InnerCatch(e))

\* handleSubmit: inner catch rethrows, outer catch reports, finally clears saving
SaveFailed_CallsOnSaved(i, e) ==
  /\ PendingTimers < MaxTimers
  /\ txs' = RemoveAt(txs, i)
  /\ savedTimers' = Append(savedTimers, txs[i].target)
  /\ IF txs[i].live
     THEN edError' = ErrorMessage(e) /\ edSaving' = FALSE
     ELSE UNCHANGED <<edError, edSaving>>
SaveFailed(i, e) ==
  /\ txs' = RemoveAt(txs, i)
  /\ IF txs[i].live
     THEN edError' = ErrorMessage(e) /\ edSaving' = FALSE
     ELSE UNCHANGED <<edError, edSaving>>
  /\ UNCHANGED savedTimers

\* a field of the decoded event arguments; undefined (none) if the ABI has no
\* input of that name
ArgOf(args, name) == IF name \in DOMAIN args THEN args[name] ELSE NoId

\* handleSubmit: id recovered from the receipt (ev: the id carried by the
\* NoteCreated event, whose ABI input is named note_id; NoId if no such event)
\* (args.noteId is a BigNumber object, truthy whatever its value, or undefined)
ExtractNoteId(ev) ==
  IF ev = NoId THEN NoId
  ELSE LET n == ArgOf([owner |-> 0, note_id |-> ev, title |-> 0], "noteId")
       IN IF n # NoId THEN n ELSE NoId

\* handleSubmit after a successful `await tx.wait()`: onSaved timer, finally
SaveSucceeded(i, ev) ==
  /\ PendingTimers < MaxTimers
  /\ txs' = RemoveAt(txs, i)
  /\ savedTimers' = Append(savedTimers,
        IF txs[i].op = "create" THEN ExtractNoteId(ev) ELSE txs[i].target)
  /\ IF txs[i].live
     THEN edSaving' = FALSE /\ UNCHANGED edError
     ELSE UNCHANGED <<edError, edSaving>>

\* handleSubmit after `await contract.createNote/updateNote(...)`
\* r: "accepted" (a transaction handle), "rejected" (the call throws e)
DispatchResponse(i, r, e) ==
  /\ txs[i].st = "sending"
  /\ IF r = "accepted"
     THEN /\ txs' = [txs EXCEPT ![i].st = "pending"]
          /\ UNCHANGED <<edError, edSaving, savedTimers>>
     ELSE SaveFailed(i, e)
  /\ UNCHANGED <<walletVars, appVars, edTitle, edLoading, refresh1, refresh2, cancelTimers>>

\* handleSubmit after `await tx.wait()`
\* r: "success" (receipt, status 1), "failed" (wait() throws e)
ConfirmResponse(i, r, ev, e) ==
  /\ txs[i].st = "pending"
  /\ IF r = "success"
     THEN SaveSucceeded(i, IF txs[i].op = "create" THEN ev ELSE NoId)
     ELSE SaveFailed(i, e)
  /\ UNCHANGED <<walletVars, appVars, edTitle, edLoading, refresh1, refresh2, cancelTimers>>

\* ------------------------------------------------ NotesList (NotesList.jsx)
Stamps == {1, 2}               \* timestamps the contract reports

\* one entry of the cached list (formattedNotes): Number(id), Number(timestamp)
Entry(id, ts) == [id |-> id, timestamp |-> ts]

\* the answers of contract.getNotesList: no note, one or two notes of the
\* account, each id once, in whatever order the contract keeps them
ContractLists ==
  {l \in UNION {[1..n -> [id : NoteIds, timestamp : Stamps]] : n \in {0, 1, 2}} :
      \A i, j \in DOMAIN l : i # j => l[i].id # l[j].id}

\* the comparator (a, b) => b.timestamp - a.timestamp puts a before b when
\* it is negative and keeps two entries as they were when it is zero
RECURSIVE Insert(_, _)
Insert(s, x) ==
  IF s = <<>> THEN <<x>>
  ELSE IF x.timestamp - Head(s).timestamp > 0
       THEN <<x>> \o s
       ELSE <<Head(s)>> \o Insert(Tail(s), x)

\* formattedNotes.sort(comparator): Array.prototype.sort is stable
RECURSIVE Sort(_)
Sort(l) ==
  IF l = <<>> THEN <<>>
  ELSE Insert(Sort(SubSeq(l, 1, Len(l) - 1)), l[Len(l)])

\* a fetchNotes call that awaits the contract, made under account a;
\* raced: another call was awaiting the contract at some time meanwhile
Fetch(a, raced) == [account |-> a, raced |-> raced]

\* how a fetchNotes call ended: st is "ok" (list: what getNotesList answered)
\* or "failed"; "none" when no call of this NotesList has ended
Answer(st, list, raced) == [st |-> st, list |-> list, raced |-> raced]
NoAnswer == Answer("none", <<>>, FALSE)

\* fetchNotes called once more beside the pending calls fs
Another(fs, a) ==
  IF fs = <<>> THEN <<Fetch(a, FALSE)>>
  ELSE [i \in DOMAIN fs |-> [fs[i] EXCEPT !.raced = TRUE]] \o <<Fetch(a, TRUE)>>

\* the NotesList is rendered in the sidebar whenever the App holds an account
ListMounted == appAccount # NoAccount

\* NotesList, effect on [provider, account, contractAddress, fetchNotes]: the
\* render after this step calls fetchNotes from that effect
MountEffectFetches ==
  /\ (~ListMounted \/ <<appProvider, appAccount>>' # <<appProvider, appAccount>>)
  /\ appProvider' # Null
  /\ appAccount' # NoAccount

\* NotesList, effect on [refreshTrigger, provider, account, ...] of a new
\* instance: it runs at the mount whatever changed
RefreshEffectAtMount ==
  /\ ~ListMounted
  /\ noteState'.refreshTrigger # "undefined"
  /\ appProvider' # Null
  /\ appAccount' # NoAccount

\* fetchNotes called k times in a row with provider and account present, each
\* up to its await, by an instance with calls fs pending, loading ld, error er
fetchNotes(k, fs, ld, er) ==
  /\ Len(fs) + k <= MaxFetches
  /\ fetches' = (IF k = 0 THEN fs
                 ELSE IF k = 1 THEN Another(fs, appAccount')
                 ELSE Another(Another(fs, appAccount'), appAccount'))
  /\ listLoading' = (IF k > 0 THEN TRUE ELSE ld)
  /\ listError' = (IF k > 0 THEN "" ELSE er)

\* What a step of the App, the wallet or the editor does to the NotesList:
\* without an account the list is unmounted (its state is lost and the answers
\* to its calls are dropped), a new instance starts empty, and the two effects
\* call fetchNotes when their dependencies changed.
ListEffects ==
  LET k == (IF MountEffectFetches THEN 1 ELSE 0)
           + (IF RefreshEffectFetches \/ RefreshEffectAtMount THEN 1 ELSE 0)
  IN IF appAccount' = NoAccount
     THEN /\ notes' = <<>>
          /\ listLoading' = FALSE
          /\ listError' = ""
          /\ fetches' = <<>>
          /\ lastAnswer' = NoAnswer
     ELSE IF ~ListMounted
     THEN /\ notes' = <<>>
          /\ lastAnswer' = NoAnswer
          /\ fetchNotes(k, <<>>, FALSE, "")
     ELSE /\ UNCHANGED <<notes, lastAnswer>>
          /\ fetchNotes(k, fetches, listLoading, listError)

\* the same step leaves the highlighted entry of a list that stays mounted
ListRender ==
  /\ ListEffects
  /\ listSelectedNoteId' = (IF appAccount' = NoAccount \/ ~ListMounted
                            THEN NoId ELSE listSelectedNoteId)

\* the "Refresh notes list" and "Try Again" buttons
handleRefresh ==
  /\ ListMounted
  /\ IF appProvider = Null
     THEN /\ notes' = <<>>
          /\ listLoading' = FALSE
          /\ listError' = "not connected"
          /\ UNCHANGED fetches
     ELSE /\ Len(fetches) < MaxFetches
          /\ fetches' = Another(fetches, appAccount)
          /\ listLoading' = TRUE
          /\ listError' = ""
          /\ UNCHANGED notes
  /\ UNCHANGED <<lastAnswer, listSelectedNoteId>>
  /\ UNCHANGED <<walletVars, appVars, editorVars, txVars, diagVars, chain>>

\* getNotesList answered call i with list l: map, sort, setNotes
FetchSucceeded_Merges(i, l) ==
  /\ i \in DOMAIN fetches
  /\ notes' = Sort(l \o SelectSeq(notes, LAMBDA e : \A j \in DOMAIN l : l[j].id # e.id))
  /\ listError' = ""
  /\ listLoading' = FALSE
  /\ fetches' = RemoveAt(fetches, i)
  /\ lastAnswer' = Answer("ok", l, fetches[i].raced)
  /\ UNCHANGED listSelectedNoteId
  /\ UNCHANGED <<walletVars, appVars, editorVars, txVars, diagVars, chain>>
FetchSucceeded(i, l) ==
  /\ i \in DOMAIN fetches
  /\ notes' = Sort(l)
  /\ listError' = ""
  /\ listLoading' = FALSE
  /\ fetches' = RemoveAt(fetches, i)
  /\ lastAnswer' = Answer("ok", l, fetches[i].raced)
  /\ UNCHANGED listSelectedNoteId
  /\ UNCHANGED <<walletVars, appVars, editorVars, txVars, diagVars, chain>>

\* call i threw (getSigner, the contract call or the formatting failed)
FetchFailed_KeepsList(i) ==
  /\ i \in DOMAIN fetches
  /\ listError' = "failed"
  /\ notes' = notes
  /\ listLoading' = FALSE
  /\ fetches' = RemoveAt(fetches, i)
  /\ lastAnswer' = Answer("failed", <<>>, fetches[i].raced)
  /\ UNCHANGED listSelectedNoteId
  /\ UNCHANGED <<walletVars, appVars, editorVars, txVars, diagVars, chain>>
FetchFailed(i) ==
  /\ i \in DOMAIN fetches
  /\ listError' = "failed"
  /\ notes' = <<>>
  /\ listLoading' = FALSE
  /\ fetches' = RemoveAt(fetches, i)
  /\ lastAnswer' = Answer("failed", <<>>, fetches[i].raced)
  /\ UNCHANGED listSelectedNoteId
  /\ UNCHANGED <<walletVars, appVars, editorVars, txVars, diagVars, chain>>

ListNext ==
  \/ handleRefresh
  \/ \E i \in 1..MaxFetches, l \in ContractLists : FetchSucceeded(i, l)
  \/ \E i \in 1..MaxFetches : FetchFailed(i)

\* the NotesList left as it is
ListIdle == UNCHANGED listVars

\* -------------------------------------- ContractDiagnostics (NotesList.jsx)
\* one check's slot of the report, with its history: run tells where the slot
\* comes from (0: the initial state, 1: the run that owns the results object,
\* 2: a report published before), answer what the contract answered to the
\* check's call ("none": the call was not made)
Outcome(valid, error, run) ==
  [valid |-> valid, error |-> error, run |-> run, answer |-> "none"]

\* the results object a run starts with
NewResults(run) ==
  [contract     |-> Outcome(FALSE, "null", run),
   noteCreation |-> Outcome(FALSE, "null", run),
   encryption   |-> Outcome(FALSE, "null", run)]

\* useState({running: false, completed: false, results: {...}})
NewDiagnosticState ==
  [running |-> FALSE, completed |-> FALSE, results |-> NewResults(0)]

RunsOf(results) ==
  {results.contract.run, results.noteCreation.run, results.encryption.run}

\* a runDiagnostics call between two of its awaits
Probe(pc, results) == [pc |-> pc, results |-> results]

\* runDiagnostics up to its first contract call, in a component holding state
\* ds and calls ps; isAddress(CONTRACT_ADDRESSES.SECURE_NOTES_RUST) is addressOk
runDiagnostics(p, a, ps, ds, addressOk) ==
  IF p = Null \/ a = NoAccount
  THEN /\ probes' = ps
       /\ diagnosticState' = ds
  ELSE LET r0 == NewResults(1)
           r1 == IF addressOk THEN r0
                 ELSE [r0 EXCEPT !.contract.error = "invalid address"]
       IN /\ Len(ps) < MaxProbes
          /\ probes' = Append(ps, Probe("view", r1))
          /\ diagnosticState' = [ds EXCEPT !.running = TRUE, !.completed = FALSE]

\* What a step of the App or the wallet does to the diagnostics modal: it is
\* rendered while showDiagnostics holds; a new instance starts from the initial
\* state, a closed one drops the answers to its calls; the effect on
\* [provider, account] calls runDiagnostics at the mount and at each change.
DiagRender ==
  IF ~showDiagnostics'
  THEN /\ probes' = <<>>
       /\ diagnosticState' = NewDiagnosticState
  ELSE IF ~showDiagnostics
  THEN \E ok \in BOOLEAN :
          runDiagnostics(appProvider', appAccount', <<>>, NewDiagnosticState, ok)
  ELSE IF <<appProvider, appAccount>>' # <<appProvider, appAccount>>
  THEN \E ok \in BOOLEAN :
          runDiagnostics(appProvider', appAccount', probes, diagnosticState, ok)
  ELSE UNCHANGED <<probes, diagnosticState>>

\* App.toggleDiagnostics (the "Diagnostics" button, shown with an account)
toggleDiagnostics ==
  /\ appAccount # NoAccount
  /\ showDiagnostics' = ~showDiagnostics
  /\ UNCHANGED <<walletVars, appVars, editorVars, txVars, listVars, chain>>
  /\ DiagRender

\* App.closeDiagnostics (the modal's close buttons)
closeDiagnostics ==
  /\ showDiagnostics
  /\ showDiagnostics' = FALSE
  /\ UNCHANGED <<walletVars, appVars, editorVars, txVars, listVars, chain>>
  /\ DiagRender

\* the "Run Again" / "Run Diagnostics" buttons, shown while no run is shown
\* as running
RunAgain ==
  /\ showDiagnostics
  /\ ~diagnosticState.running
  /\ \E ok \in BOOLEAN :
        runDiagnostics(appProvider, appAccount, probes, diagnosticState, ok)
  /\ UNCHANGED <<walletVars, appVars, editorVars, txVars, listVars, chain,
                 showDiagnostics>>

\* getEncryptionContractAddress answered call i
ViewResponse_AbortsOnFailure(i, r) ==
  /\ i \in DOMAIN probes
  /\ probes[i].pc = "view"
  /\ probes' = [probes EXCEPT ![i] =
        IF r = "ok"
        THEN [@ EXCEPT !.pc = "encrypt", !.results.contract.valid = TRUE,
                       !.results.contract.answer = r]
        ELSE [@ EXCEPT !.pc = "count", !.results.contract.error = "view failed",
                       !.results.contract.answer = r]]
  /\ UNCHANGED <<walletVars, appVars, editorVars, txVars, listVars, chain,
                 showDiagnostics, diagnosticState>>
ViewResponse(i, r) ==
  /\ i \in DOMAIN probes
  /\ probes[i].pc = "view"
  /\ probes' = [probes EXCEPT ![i] =
        IF r = "ok"
        THEN [@ EXCEPT !.pc = "encrypt", !.results.contract.valid = TRUE,
                       !.results.contract.answer = r]
        ELSE [@ EXCEPT !.pc = "encrypt", !.results.contract.error = "view failed",
                       !.results.contract.answer = r]]
  /\ UNCHANGED <<walletVars, appVars, editorVars, txVars, listVars, chain,
                 showDiagnostics, diagnosticState>>

\* encryptNote("Test content") answered call i
EncryptResponse(i, r) ==
  /\ i \in DOMAIN probes
  /\ probes[i].pc = "encrypt"
  /\ probes' = [probes EXCEPT ![i] =
        IF r = "ok"
        THEN [@ EXCEPT !.pc = "count", !.results.encryption.valid = TRUE,
                       !.results.encryption.answer = r]
        ELSE [@ EXCEPT !.pc = "count", !.results.encryption.error = "encrypt failed",
                       !.results.encryption.answer = r]]
  /\ UNCHANGED <<walletVars, appVars, editorVars, txVars, listVars, chain,
                 showDiagnostics, diagnosticState>>

\* finally: setDiagnosticState({running: false, completed: true, results})
Publish_MergesPassed(ds, results) ==
  [running |-> FALSE, completed |-> TRUE,
   results |-> [c \in DOMAIN results |->
                  IF results[c].valid THEN results[c]
                  ELSE [ds.results[c] EXCEPT !.run = IF @ = 0 THEN 0 ELSE 2]]]
Publish(ds, results) ==
  [running |-> FALSE, completed |-> TRUE, results |-> results]

\* getNoteCount answered call i, which then publishes its results
CountResponse(i, r) ==
  LET done == IF r = "ok"
              THEN [probes[i].results EXCEPT !.noteCreation.valid = TRUE,
                                             !.noteCreation.answer = r]
              ELSE [probes[i].results EXCEPT !.noteCreation.error = "count failed",
                                             !.noteCreation.answer = r]
  IN /\ i \in DOMAIN probes
     /\ probes[i].pc = "count"
     /\ probes' = RemoveAt(probes, i)
     /\ diagnosticState' = Publish(diagnosticState, done)
     /\ UNCHANGED <<walletVars, appVars, editorVars, txVars, listVars, chain,
                    showDiagnostics>>

\* ContractDiagnostics.getRecommendations, on the results of the report; each
\* text is named by what it recommends
getRecommendations_NoContractGuard(results) ==
  LET r1 == IF ~results.contract.valid THEN <<"check deployment">> ELSE <<>>
      r2 == IF ~results.encryption.valid
            THEN <<"encryption not working">> ELSE <<>>
      r3 == IF results.contract.valid /\ ~results.noteCreation.valid
            THEN <<"note creation not working">> ELSE <<>>
      recommendations == r1 \o r2 \o r3
  IN IF Len(recommendations) = 0
     THEN IF results.contract.valid /\ results.encryption.valid
             /\ results.noteCreation.valid
          THEN <<"working correctly">>
          ELSE <<"check devnet">>
     ELSE recommendations
getRecommendations(results) ==
  LET r1 == IF ~results.contract.valid THEN <<"check deployment">> ELSE <<>>
      r2 == IF results.contract.valid /\ ~results.encryption.valid
            THEN <<"encryption not working">> ELSE <<>>
      r3 == IF results.contract.valid /\ ~results.noteCreation.valid
            THEN <<"note creation not working">> ELSE <<>>
      recommendations == r1 \o r2 \o r3
  IN IF Len(recommendations) = 0
     THEN IF results.contract.valid /\ results.encryption.valid
             /\ results.noteCreation.valid
          THEN <<"working correctly">>
          ELSE <<"check devnet">>
     ELSE recommendations

Answers == {"ok", "failed"}

DiagNext ==
  \/ toggleDiagnostics
  \/ closeDiagnostics
  \/ RunAgain
  \/ \E i \in 1..MaxProbes, r \in Answers : ViewResponse(i, r)
  \/ \E i \in 1..MaxProbes, r \in Answers : EncryptResponse(i, r)
  \/ \E i \in 1..MaxProbes, r \in Answers : CountResponse(i, r)

\* ------------------------------------------------------------ composition
\* the list, the diagnostics modal and the contract's store left as they are
Apart == UNCHANGED <<listVars, diagVars, chain>>

\* what the list and the diagnostics modal do on a step of another component
Reactions ==
  /\ ListRender
  /\ UNCHANGED showDiagnostics
  /\ DiagRender
  /\ UNCHANGED chain

\* NotesList.handleSelectNote(noteId), a click on a list entry: the list
\* highlights the entry and calls onSelectNote
ListSelectNote(n) ==
  /\ handleSelectNote(n)
  /\ listSelectedNoteId' = n
  /\ ListEffects
  /\ UNCHANGED showDiagnostics
  /\ DiagRender
  /\ UNCHANGED chain

\* the list and the modal before the first connection
Unmounted ==
  /\ notes = <<>>
  /\ listLoading = FALSE
  /\ listError = ""
  /\ fetches = <<>>
  /\ lastAnswer = NoAnswer
  /\ listSelectedNoteId = NoId
  /\ showDiagnostics = FALSE
  /\ diagnosticState = NewDiagnosticState
  /\ probes = <<>>
  /\ chain = <<>>

\* the list right after the connection as account a: its mount effect has
\* called fetchNotes
Mounted(a) ==
  /\ notes = <<>>
  /\ listLoading = TRUE
  /\ listError = ""
  /\ fetches = <<Fetch(a, FALSE)>>
  /\ lastAnswer = NoAnswer
  /\ listSelectedNoteId = NoId
  /\ showDiagnostics = FALSE
  /\ diagnosticState = NewDiagnosticState
  /\ probes = <<>>
  /\ chain = <<>>

\* the steps of the wallet component
WalletNext ==
  \/ connectWallet /\ Reactions
  \/ \E i \in 1..MaxAttempts, r \in {"ok", "unknown", "rejected"} :
        i <= Len(attempts) /\ SwitchResponse(i, r) /\ Reactions
  \/ \E i \in 1..MaxAttempts, r \in {"ok", "rejected"} :
        i <= Len(attempts) /\ AddResponse(i, r) /\ Reactions
  \/ \E i \in 1..MaxAttempts, r \in {"granted", "empty", "rejected"} :
        i <= Len(attempts) /\ AccountsResponse(i, r) /\ Reactions
  \/ \E i \in 1..MaxAttempts : i <= Len(attempts) /\ SignRequest(i) /\ Reactions
  \/ \E i \in 1..MaxAttempts, r \in {"approved", "rejected"} :
        i <= Len(attempts) /\ SignResponse(i, r) /\ Reactions
  \/ \E accs \in {<<>>} \cup {<<b>> : b \in Accounts} : AccountsChanged(accs) /\ Reactions
  \/ disconnectWallet /\ Reactions

\* the same steps, the list, the modal and the store left apart
WalletAlone ==
  \/ connectWallet /\ Apart
  \/ \E i \in 1..MaxAttempts, r \in {"ok", "unknown", "rejected"} :
        i <= Len(attempts) /\ SwitchResponse(i, r) /\ Apart
  \/ \E i \in 1..MaxAttempts, r \in {"ok", "rejected"} :
        i <= Len(attempts) /\ AddResponse(i, r) /\ Apart
  \/ \E i \in 1..MaxAttempts, r \in {"granted", "empty", "rejected"} :
        i <= Len(attempts) /\ AccountsResponse(i, r) /\ Apart
  \/ \E i \in 1..MaxAttempts : i <= Len(attempts) /\ SignRequest(i) /\ Apart
  \/ \E i \in 1..MaxAttempts, r \in {"approved", "rejected"} :
        i <= Len(attempts) /\ SignResponse(i, r) /\ Apart
  \/ \E accs \in {<<>>} \cup {<<b>> : b \in Accounts} : AccountsChanged(accs) /\ Apart
  \/ disconnectWallet /\ Apart

\* the steps of the App: its handlers and its timers
AppNext ==
  \/ \E n \in NoteIds : ListSelectNote(n)
  \/ handleCreateNote /\ Reactions
  \/ EditClick /\ Reactions
  \/ SavedTimerFires /\ Reactions
  \/ Refresh1Fires /\ Reactions
  \/ Refresh2Fires /\ Reactions
  \/ CancelTimerFires /\ Reactions

\* the same steps, the list, the modal and the store left apart
AppAlone ==
  \/ \E n \in NoteIds : handleSelectNote(n) /\ Apart
  \/ handleCreateNote /\ Apart
  \/ EditClick /\ Apart
  \/ SavedTimerFires /\ Apart
  \/ Refresh1Fires /\ Apart
  \/ Refresh2Fires /\ Apart
  \/ CancelTimerFires /\ Apart

\* the editor, following at most cap saves, failures being drawn from errs
EditorNext(cap, errs) ==
  \/ \E t \in Titles : SetTitle(t) /\ Reactions
  \/ \E r \in {"ok", "failed"}, t \in Titles : LoadResponse(r, t) /\ Reactions
  \/ handleCancel /\ Reactions
  \/ Submit(cap) /\ Reactions
  \/ \E i \in 1..cap : i <= Len(txs) /\ DispatchResponse(i, "accepted", MinedFailed) /\ Reactions
  \/ \E i \in 1..cap, e \in errs :
        i <= Len(txs) /\ DispatchResponse(i, "rejected", e) /\ Reactions
  \/ \E i \in 1..cap, ev \in NoteIds \cup {NoId} :
        i <= Len(txs) /\ ConfirmResponse(i, "success", ev, MinedFailed) /\ Reactions
  \/ \E i \in 1..cap, e \in errs :
        i <= Len(txs) /\ ConfirmResponse(i, "failed", NoId, e) /\ Reactions

\* the same steps, the list, the modal and the store left apart
EditorAlone(cap, errs) ==
  \/ \E t \in Titles : SetTitle(t) /\ Apart
  \/ \E r \in {"ok", "failed"}, t \in Titles : LoadResponse(r, t) /\ Apart
  \/ handleCancel /\ Apart
  \/ Submit(cap) /\ Apart
  \/ \E i \in 1..cap : i <= Len(txs) /\ DispatchResponse(i, "accepted", MinedFailed) /\ Apart
  \/ \E i \in 1..cap, e \in errs :
        i <= Len(txs) /\ DispatchResponse(i, "rejected", e) /\ Apart
  \/ \E i \in 1..cap, ev \in NoteIds \cup {NoId} :
        i <= Len(txs) /\ ConfirmResponse(i, "success", ev, MinedFailed) /\ Apart
  \/ \E i \in 1..cap, e \in errs :
        i <= Len(txs) /\ ConfirmResponse(i, "failed", NoId, e) /\ Apart

\* the view-state handlers that need no editor or save in progress
ViewNext ==
  \/ \E n \in NoteIds : ListSelectNote(n)
  \/ handleCreateNote /\ Reactions
  \/ EditClick /\ Reactions

\* the same steps, the list, the modal and the store left apart
ViewAlone ==
  \/ \E n \in NoteIds : handleSelectNote(n) /\ Apart
  \/ handleCreateNote /\ Apart
  \/ EditClick /\ Apart

Init ==
  /\ walletActive \in Accounts
  /\ cwAccount = NoAccount
  /\ isConnecting = FALSE
  /\ cwError = ""
  /\ manuallyDisconnected = FALSE
  /\ attempts = <<>>
  /\ awaitingConnect = FALSE
  /\ networkReady = FALSE
  /\ sessionVia = Proof("none", "none", NoAccount)
  /\ appAccount = NoAccount
  /\ appProvider = Null
  /\ noteState = [selectedNoteId |-> NoId, isEditing |-> FALSE,
                  editorKey |-> Key("initial", NoId), refreshTrigger |-> "t1"]
  /\ edTitle = ""
  /\ edLoading = FALSE
  /\ edSaving = FALSE
  /\ edError = ""
  /\ txs = <<>>
  /\ savedTimers = <<>>
  /\ refresh1 = 0
  /\ refresh2 = 0
  /\ cancelTimers = 0
  /\ Unmounted

\* the whole client
Next ==
  \/ WalletNext
  \/ AppNext
  \/ EditorNext(MaxWrites, Errors)
  \/ ListNext
  \/ DiagNext

Spec == Init /\ [][Next]_vars

\* the wallet component and the App's session and view state
NextWallet == WalletAlone \/ ViewAlone

SpecWallet == Init /\ [][NextWallet]_vars

\* the state right after a first successful connectWallet as account a
Connected(a) ==
  /\ walletActive = a
  /\ cwAccount = a
  /\ isConnecting = FALSE
  /\ cwError = ""
  /\ manuallyDisconnected = FALSE
  /\ attempts = <<>>
  /\ awaitingConnect = FALSE
  /\ networkReady = TRUE
  /\ sessionVia = Proof("connect", "approved", a)
  /\ appAccount = a
  /\ appProvider = "p1"
  /\ noteState = [selectedNoteId |-> NoId, isEditing |-> FALSE,
                  editorKey |-> Key("wallet-change", NoId),
                  refreshTrigger |-> "undefined"]
  /\ edTitle = ""
  /\ edLoading = FALSE
  /\ edSaving = FALSE
  /\ edError = ""
  /\ txs = <<>>
  /\ savedTimers = <<>>
  /\ refresh1 = 0
  /\ refresh2 = 0
  /\ cancelTimers = 0
  /\ Mounted(a)

InitSave == Connected("a1")

\* the view state machine and the save lifecycle under one session, which
\* ends with disconnectWallet
NextSave ==
  \/ AppAlone
  \/ EditorAlone(MaxTx, TypicalErrors)
  \/ disconnectWallet /\ Apart

SpecSave == InitSave /\ [][NextSave]_vars

\* the same client without the cancel button, with saves that succeed and
\* with timeouts that fire:
\* the App is never unmounted and no timeout is ever cleared, so each pending
\* timeout eventually fires
NextRefresh ==
  \/ ViewAlone
  \/ SavedTimerFires /\ Apart
  \/ Refresh1Fires /\ Apart
  \/ Refresh2Fires /\ Apart
  \/ SetTitle("T") /\ Apart
  \/ LoadResponse("ok", "T") /\ Apart
  \/ Submit(MaxTx) /\ Apart
  \/ \E i \in 1..MaxTx : i <= Len(txs) /\ DispatchResponse(i, "accepted", MinedFailed) /\ Apart
  \/ \E i \in 1..MaxTx, ev \in NoteIds \cup {NoId} :
        i <= Len(txs) /\ ConfirmResponse(i, "success", ev, MinedFailed) /\ Apart
  \/ disconnectWallet /\ Apart

SpecRefresh ==
  /\ InitSave /\ [][NextRefresh]_vars
  /\ WF_vars(SavedTimerFires /\ Apart)
  /\ WF_vars(Refresh1Fires /\ Apart)
  /\ WF_vars(Refresh2Fires /\ Apart)

\* the same, following more saves at once
NextWrites == AppAlone \/ EditorAlone(MaxWrites, TypicalErrors)

SpecWrites == InitSave /\ [][NextWrites]_vars

\* the App component on its own under one session: its children call the
\* callbacks it hands them, onSaved with any id or null
OnSaved(n) ==
  /\ PendingTimers < MaxTimers
  /\ handleNoteSaved(n)
  /\ UNCHANGED <<walletVars, appAccount, appProvider, savedTimers, refresh2, cancelTimers>>

\* an edit request, whatever the App shows
EditRequest ==
  /\ ~NoSession
  /\ handleEditNote
  /\ UNCHANGED <<walletVars, appAccount, appProvider,
                 savedTimers, refresh1, refresh2, cancelTimers>>

OnCancel ==
  /\ handleCancelEdit
  /\ UNCHANGED <<walletVars, appAccount, appProvider, savedTimers, refresh1, refresh2,
                 cancelTimers>>

NextApp ==
  \/ ViewAlone
  \/ \E n \in NoteIds \cup {NoId} : OnSaved(n) /\ Apart
  \/ OnCancel /\ Apart
  \/ EditRequest /\ Apart
  \/ Refresh1Fires /\ Apart
  \/ Refresh2Fires /\ Apart

InitApp == \E a \in Accounts : Connected(a)

SpecApp == InitApp /\ [][NextApp]_vars

\* the NoteEditor component on its own, rendered with any props: provider and
\* account (held in appProvider, appAccount), noteId and readOnly (held in
\* noteState: readOnly is ~isEditing), and any title typed into the form
InitEditor ==
  /\ walletActive = "a1"
  /\ cwAccount = NoAccount
  /\ isConnecting = FALSE
  /\ cwError = ""
  /\ manuallyDisconnected = FALSE
  /\ attempts = <<>>
  /\ awaitingConnect = FALSE
  /\ networkReady = FALSE
  /\ sessionVia = Proof("none", "none", NoAccount)
  /\ appAccount \in Accounts \cup {NoAccount}
  /\ appProvider \in {Null, "p1"}
  /\ noteState \in [selectedNoteId : NoteIds \cup {NoId}, isEditing : BOOLEAN,
                    editorKey : {Key("initial", NoId)}, refreshTrigger : {"t1"}]
  /\ edTitle \in Titles
  /\ edLoading = FALSE
  /\ edSaving = FALSE
  /\ edError = ""
  /\ txs = <<>>
  /\ savedTimers = <<>>
  /\ refresh1 = 0
  /\ refresh2 = 0
  /\ cancelTimers = 0
  /\ Unmounted

\* a submit event on the form, whatever the props
SubmitEvent ==
  /\ Len(txs) < MaxWrites
  /\ handleSubmit(appProvider, appAccount, noteState.selectedNoteId,
                  ~noteState.isEditing)

NextEditor(errs) ==
  \/ SubmitEvent /\ Apart
  \/ \E i \in 1..MaxWrites : i <= Len(txs) /\ DispatchResponse(i, "accepted", MinedFailed) /\ Apart
  \/ \E i \in 1..MaxWrites, e \in errs :
        i <= Len(txs) /\ DispatchResponse(i, "rejected", e) /\ Apart
  \/ \E i \in 1..MaxWrites, ev \in NoteIds \cup {NoId} :
        i <= Len(txs) /\ ConfirmResponse(i, "success", ev, MinedFailed) /\ Apart
  \/ \E i \in 1..MaxWrites, e \in errs :
        i <= Len(txs) /\ ConfirmResponse(i, "failed", NoId, e) /\ Apart

SpecEditor == InitEditor /\ [][NextEditor(TypicalErrors)]_vars

\* the same component, its saves failing with any error
SpecClassify == InitEditor /\ [][NextEditor(Errors)]_vars

\* what the diagnostics modal does on a step of the wallet, the list left apart
DiagReaction ==
  /\ ListIdle
  /\ UNCHANGED showDiagnostics
  /\ DiagRender
  /\ UNCHANGED chain

\* the wallet component calls onConnected: with a verified account and a new
\* provider, or with ('', null) at a disconnect
OnConnected(a) ==
  /\ handleConnect(a, IF a = NoAccount THEN Null ELSE FreshProvider(appProvider))
  /\ UNCHANGED <<walletVars, savedTimers, refresh1, refresh2, cancelTimers>>

\* the diagnostics modal with the App, whose session the wallet component may
\* replace or end at any time
NextDiag ==
  \/ DiagNext
  \/ \E a \in Accounts \cup {NoAccount} : OnConnected(a) /\ DiagReaction

SpecDiag == InitSave /\ [][NextDiag]_vars

\* the contract holds a note under id
Stored(id) == id # NoId /\ id < Len(chain)

\* the store after the save tx was executed: createNote stores the title under
\* the next id, updateNote replaces the title of its target
Executed(tx) ==
  IF tx.op = "create" THEN Append(chain, tx.title)
  ELSE [chain EXCEPT ![tx.target + 1] = tx.title]

\* `await tx.wait()` of save i resolves with status 1 on a contract that
\* confirms at once: the save is executed and a create emits
\* NoteCreated(owner, note_id, title) with the id it assigned
Mined(i) ==
  /\ i \in DOMAIN txs
  /\ txs[i].st = "pending"
  /\ IF txs[i].op = "create" THEN Len(chain) <= MaxNoteId ELSE Stored(txs[i].target)
  /\ chain' = Executed(txs[i])
  /\ ConfirmResponse(i, "success", Len(chain), MinedFailed)
  /\ UNCHANGED <<listVars, diagVars>>

\* `await contract.getNote(noteId)` answers with what the contract stores
\* under the id, and throws when it stores nothing
NoteRead ==
  /\ IF Stored(noteState.selectedNoteId)
     THEN LoadResponse("ok", chain[noteState.selectedNoteId + 1])
     ELSE LoadResponse("failed", "")
  /\ Apart

\* saving and reading back under one session against a contract that accepts
\* and confirms every save
NextRoundTrip ==
  \/ ViewAlone
  \/ \E t \in Titles : SetTitle(t) /\ Apart
  \/ NoteRead
  \/ Submit(MaxTx) /\ Apart
  \/ \E i \in 1..MaxTx : i <= Len(txs) /\ DispatchResponse(i, "accepted", MinedFailed) /\ Apart
  \/ \E i \in 1..MaxTx : Mined(i)
  \/ SavedTimerFires /\ Apart
  \/ Refresh1Fires /\ Apart
  \/ Refresh2Fires /\ Apart

SpecRoundTrip == InitSave /\ [][NextRoundTrip]_vars

\* the NotesList under one session, beside the App's view state, the refresh
\* timers that saves leave behind and the end of the session
NextList ==
  \/ ViewNext
  \/ \E n \in NoteIds \cup {NoId} : OnSaved(n) /\ Reactions
  \/ Refresh1Fires /\ Reactions
  \/ Refresh2Fires /\ Reactions
  \/ disconnectWallet /\ Reactions
  \/ ListNext

SpecList == InitSave /\ [][NextList]_vars

\* one NoteEditor instance in edit mode under a session, from the form as the
\* user left it to the callback that closes it: nothing here opens an editor,
\* so every submit comes from the instance the run started with
InitInstance ==
  /\ InitEditor
  /\ noteState.isEditing
  /\ appAccount # NoAccount
  /\ appProvider # Null

NextInstance ==
  \/ \E t \in Titles : SetTitle(t) /\ Apart
  \/ Submit(MaxTx) /\ Apart
  \/ \E i \in 1..MaxTx : i <= Len(txs) /\ DispatchResponse(i, "accepted", MinedFailed) /\ Apart
  \/ \E i \in 1..MaxTx, e \in TypicalErrors :
        i <= Len(txs) /\ DispatchResponse(i, "rejected", e) /\ Apart
  \/ \E i \in 1..MaxTx, ev \in NoteIds \cup {NoId} :
        i <= Len(txs) /\ ConfirmResponse(i, "success", ev, MinedFailed) /\ Apart
  \/ \E i \in 1..MaxTx, e \in TypicalErrors :
        i <= Len(txs) /\ ConfirmResponse(i, "failed", NoId, e) /\ Apart
  \/ SavedTimerFires /\ Apart

SpecInstance == InitInstance /\ [][NextInstance]_vars

\* the NotesList beside an App whose session the wallet component replaces
\* (a verified account change) or ends: the list stays mounted from one
\* account to the next, and the calls it made are never cancelled
NextAccounts ==
  \/ ListNext
  \/ \E a \in Accounts \cup {NoAccount} : OnConnected(a) /\ Reactions

SpecAccounts == InitSave /\ [][NextAccounts]_vars

\* ------------------------------------------------------------------ claims

\* C1: whenever the App or the wallet component holds an account, the call of
\* onConnected that installed it was backed by an approved signature request
\* whose recovered signer is that account (compared case-insensitively), and
\* the wallet component never holds an account the App does not hold.
C1_SessionVerified ==
  /\ appAccount # NoAccount =>
       /\ sessionVia.by \in {"connect", "change"}
       /\ sessionVia.answer = "approved"
       /\ ToLowerCase(Checksum(sessionVia.signer)) = ToLowerCase(appAccount)
  /\ cwAccount # NoAccount => cwAccount = appAccount

\* C1 witness: a session installed by the account-change handler
C1_Witness ==
  /\ appAccount \in Accounts
  /\ cwAccount = appAccount
  /\ sessionVia.by = "change"

\* C2 (as claimed): a notification that the active account changed from the
\* session's account A to another account B clears the App's account and
\* provider in the same step.
C2_ClearedOnChange ==
  [][\A b \in Accounts :
        (appAccount # NoAccount /\ b # appAccount /\ AccountsChanged(<<b>>))
          => (appAccount' = NoAccount /\ appProvider' = Null)]_vars

\* C3 (as claimed): when the re-authentication started by an account-change
\* notification fails (empty account list, rejected signature, signer
\* mismatch) the App holds no account and no provider.
C3_FailedReauthUnauthenticated ==
  [][(\/ AccountsChanged(<<>>)
      \/ \E i \in 1..MaxAttempts, r \in {"approved", "rejected"} :
            /\ i <= Len(attempts)
            /\ attempts[i].kind = "change"
            /\ ~requestSignature(attempts[i].address, attempts[i].signer, r)
            /\ SignResponse(i, r))
       => (appAccount' = NoAccount /\ appProvider' = Null)]_vars

\* C4 (as claimed): between disconnect() and the next invocation of connect()
\* the App holds no session installed by the account-change handler.
C4_NoReauthAfterDisconnect ==
  ~(awaitingConnect /\ appAccount # NoAccount /\ sessionVia.by = "change")

\* C5 (as claimed): once a connect() invoked after a disconnect() has
\* installed a session, an account-change notification is handled: the wallet
\* component's account is cleared and a signature request for the new account
\* is started.
C5_HandledAfterReconnect ==
  [][\A b \in Accounts :
        (/\ manuallyDisconnected
         /\ ~awaitingConnect
         /\ cwAccount # NoAccount
         /\ sessionVia.by = "connect"
         /\ AccountsChanged(<<b>>))
          => (/\ cwAccount' = NoAccount
              /\ attempts' = Append(attempts,
                    Attempt("change", "sign_req", b, NoAccount, "none")))]_vars

\* C6 (as claimed): at most one authentication attempt is pending at any time.
C6_OneAttemptInFlight == Len(attempts) <= 1

\* C7: a connect() proceeds to the account request, the signature request and
\* the session only after the wallet answered "ok" to the network switch or
\* to the network addition; the step that ends a connect() at the network
\* step resets the connecting flag and leaves the session untouched.
C7_NetworkFailureAborts ==
  /\ [](\A i \in DOMAIN attempts :
          (attempts[i].kind = "connect"
             /\ attempts[i].pc \in {"accounts", "sign_req", "signing"})
            => attempts[i].net = "ok")
  /\ [][(\E i \in DOMAIN attempts :
            /\ attempts[i].pc \in {"switching", "adding"}
            /\ attempts' = RemoveAt(attempts, i))
          => (/\ ~isConnecting'
              /\ cwError' \in {"switch", "add"}
              /\ UNCHANGED <<cwAccount, sessionVia, appVars>>)]_vars

\* C7 witness: a connect() ended by a failed network addition, no session
C7_Witness ==
  /\ cwError = "add"
  /\ attempts = <<>>
  /\ ~isConnecting
  /\ appAccount = NoAccount

\* C8 (as claimed): no two unresolved updateNote calls have the same target.
C8_OneWritePerTarget ==
  \A i, j \in DOMAIN txs :
     (i # j /\ txs[i].op = "update" /\ txs[j].op = "update")
       => txs[i].target # txs[j].target

\* C9: an editor without provider or account never dispatches and never
\* enters the saving state; a submit in its edit form reports an error and
\* leaves the view state and the transactions unchanged.
C9_UnauthenticatedSubmitFails ==
  /\ []((appProvider = Null \/ appAccount = NoAccount)
          => (txs = <<>> /\ ~edSaving))
  /\ [][((appProvider = Null \/ appAccount = NoAccount) /\ noteState.isEditing)
          => (/\ edError' \in {"title", "connect"}
              /\ ~edSaving'
              /\ UNCHANGED <<appVars, txVars>>)]_vars

\* C9 witness: a rejected submit of an editor that has an account, no provider
C9_Witness ==
  /\ appProvider = Null
  /\ appAccount # NoAccount
  /\ noteState.isEditing
  /\ edError = "connect"
  /\ txs = <<>>

\* C10: the step that resolves a save as failed (dispatch rejected, or
\* confirmation with status 0) removes the call, starts no onSaved timer and
\* no refresh timer and leaves the view state unchanged; for the editor that
\* is still shown the machine stays in Creating / Editing(target) and the
\* error is reported.
C10_FailedSaveStays ==
  [][\A i \in 1..MaxTx :
        (/\ i <= Len(txs)
         /\ \E e \in TypicalErrors :
              \/ DispatchResponse(i, "rejected", e)
              \/ ConfirmResponse(i, "failed", NoId, e))
          => (/\ txs' = RemoveAt(txs, i)
              /\ UNCHANGED <<savedTimers, refresh1, refresh2, appVars>>
              /\ txs[i].live =>
                   /\ noteState'.isEditing
                   /\ noteState'.selectedNoteId = txs[i].target
                   /\ edError' \in {ErrorMessage(e) : e \in TypicalErrors}
                   /\ ~edSaving')]_vars

\* C10 witness: a failed save reported in an editor still in edit mode
C10_Witness ==
  /\ edError = ErrorMessage(MinedFailed)
  /\ noteState.isEditing
  /\ ~edSaving
  /\ PendingTimers = 0

\* the class of the spec's taxonomy that a reported message stands for
Classification(m) ==
  CASE m = "Transaction was rejected in your wallet." -> "rejection"
    [] m = "failed during execution" -> "zero status"
    [] m \in {"rejected by the smart contract", "gas estimation failed",
              "not enough ETH", "contract is not responding",
              "invalid address format",
              "Note does not exist or you don't have permission to edit it.",
              "Your wallet isn't correctly registered with the contract."}
         -> "pattern"
    [] OTHER -> "unknown"

\* C11 (as claimed): the message reported for a failed save of the shown
\* editor has the class that the precedence rejection > zero status >
\* message pattern > unknown gives the error, whatever signals its nested
\* message, its top-level message and its receipt carry.
C11_ClassifiedByPrecedence ==
  [][LET Carried(e) == (IF e.nested.present THEN e.nested.has ELSE {})
                         \cup (IF e.message.present THEN e.message.has ELSE {})
         Precedence(e) ==
           IF "user rejected" \in Carried(e) THEN "rejection"
           ELSE IF e.receipt = 0 THEN "zero status"
           ELSE IF Carried(e) # {} THEN "pattern"
           ELSE "unknown"
     IN \A i \in 1..MaxWrites, e \in Errors :
          (/\ i <= Len(txs)
           /\ txs[i].live
           /\ \/ DispatchResponse(i, "rejected", e)
              \/ ConfirmResponse(i, "failed", NoId, e))
            => Classification(edError') = Precedence(e)]_vars

\* C12: a createNote confirmed with a receipt from which no id is recovered
\* hands null to the delayed onSaved and reports no error; when that onSaved
\* runs in Creating the machine goes to Browsing.
C12_NullIdToBrowsing ==
  /\ [][\A i \in 1..MaxTx :
          (/\ i <= Len(txs)
           /\ txs[i].op = "create"
           /\ ConfirmResponse(i, "success", NoId, MinedFailed))
            => (/\ savedTimers' = Append(savedTimers, NoId)
                /\ UNCHANGED <<edError, appVars>>)]_vars
  /\ [][(Creating /\ Len(savedTimers) > 0 /\ Head(savedTimers) = NoId
            /\ SavedTimerFires)
          => Browsing']_vars

\* C12 witness: Browsing, reached by onSaved(null) with nothing selected
C12_Witness ==
  /\ Browsing
  /\ noteState.editorKey = Key("saved", NoId)
  /\ edError = ""

\* C13 (as claimed): onSaved(n) in Creating with a recovered id n >= 0 leads
\* to Viewing(n).
C13_RecoveredIdViewed ==
  [][\A n \in NoteIds : (Creating /\ OnSaved(n)) => Viewing(n)']_vars

\* C14 (as claimed): a createNote confirmed with a receipt whose NoteCreated
\* event carries id n hands n to the delayed onSaved.
C14_EventIdDelivered ==
  [][\A i \in 1..MaxTx, n \in NoteIds :
        (/\ i <= Len(txs)
         /\ txs[i].op = "create"
         /\ ConfirmResponse(i, "success", n, MinedFailed))
          => savedTimers' = Append(savedTimers, n)]_vars

\* C15: a confirmed save adds exactly two owed refresh signals and nothing
\* else adds any; every refresh signal is one of the owed ones, and with a
\* session it makes the list effect fetch; the second timeout of a save is
\* set only by the step that emits its first signal; and signals keep being
\* emitted until none is owed.
C15_TwoRefreshSignals ==
  /\ [][LET Confirmed == \E i \in 1..MaxTx, ev \in NoteIds \cup {NoId} :
                            i <= Len(txs) /\ ConfirmResponse(i, "success", ev, MinedFailed)
        IN /\ Confirmed => OwedSignals' = OwedSignals + 2
           /\ RefreshSignal => /\ OwedSignals' = OwedSignals - 1
                               /\ appAccount # NoAccount => RefreshEffectFetches
           /\ ~(Confirmed \/ RefreshSignal) => OwedSignals' = OwedSignals
           /\ refresh2' > refresh2 => (RefreshSignal /\ refresh1' = refresh1 - 1)]_vars
  /\ ([]<><<RefreshSignal>>_vars \/ []<>(OwedSignals = 0))

\* C15 witness: the first signal of a save was emitted, the second is pending
C15_Witness ==
  /\ refresh2 > 0
  /\ noteState.refreshTrigger \in {"t1", "t2"}
  /\ appAccount # NoAccount

\* C16 (as claimed): a click on a list entry while the machine is in
\* Creating or Editing(id) leaves the view state unchanged.
C16_NoSelectWhileEditing ==
  [][\A n \in NoteIds :
        (~NoSession /\ noteState.isEditing /\ handleSelectNote(n))
          => UNCHANGED noteState]_vars

\* C17 (as claimed): once the user has selected a note from the list (the
\* editor key is the one handleSelectNote sets), the delayed onSaved of an
\* editor left before changes neither the selection nor the mode.
C17_StaleCallbackIgnored ==
  [][(noteState.editorKey \in {Key("view", n) : n \in NoteIds} /\ SavedTimerFires)
       => (/\ noteState'.selectedNoteId = noteState.selectedNoteId
           /\ noteState'.isEditing = noteState.isEditing)]_vars

\* C18: disconnectWallet leaves the App without session, whatever the state
\* before (Browsing, Viewing, Creating, Editing), and a signature answer that
\* installs a session leaves the App in Browsing.
C18_ReconnectToBrowsing ==
  /\ [][disconnectWallet => NoSession']_vars
  /\ [][(\E i \in 1..MaxAttempts, r \in {"approved", "rejected"} :
            /\ i <= Len(attempts)
            /\ requestSignature(attempts[i].address, attempts[i].signer, r)
            /\ SignResponse(i, r))
          => Browsing']_vars

\* C18 witness: Browsing under a session installed by a connect() that
\* followed a disconnect()
C18_Witness ==
  /\ Browsing
  /\ manuallyDisconnected
  /\ ~awaitingConnect
  /\ sessionVia.by = "connect"

\* C19: the onCancel timeout clears edit mode and keeps the selection: fired
\* in Creating it leads to Browsing, fired in Editing(n) to Viewing(n).
C19_CancelKeepsSelection ==
  [][CancelTimerFires
       => (/\ Creating => Browsing'
           /\ \A n \in NoteIds : Editing(n) => Viewing(n)')]_vars

\* C19 witness: Viewing(n) under the key that only handleCancelEdit gives a
\* state without edit mode
C19_Witness ==
  /\ \E n \in NoteIds : Viewing(n)
  /\ noteState.editorKey = FreshKey

\* C20: a step taken in Creating that ends with edit mode on ends with no
\* selection.
C20_NoCreatingToEditing ==
  [][(Creating /\ noteState'.isEditing /\ appAccount' # NoAccount)
       => noteState'.selectedNoteId = NoId]_vars

\* C20 witness: Creating with a save in progress (steps were taken in
\* Creating and edit mode is still on)
C20_Witness ==
  /\ Creating
  /\ edSaving
  /\ txs # <<>>
\* C21: after every successful fetch the cached list is ordered by timestamp,
\* newest first, and entries with equal timestamps by id, largest first,
\* whatever order the contract returned them in.
C21_NewestFirstThenId ==
  \A i \in 1..(Len(notes) - 1) :
     \/ notes[i].timestamp > notes[i + 1].timestamp
     \/ /\ notes[i].timestamp = notes[i + 1].timestamp
        /\ notes[i].id > notes[i + 1].id

\* the lists l and m hold the same entries
SameEntries(l, m) ==
  /\ Len(l) = Len(m)
  /\ {l[i] : i \in DOMAIN l} = {m[i] : i \in DOMAIN m}

\* C29: when several fetches were in flight together and all of them have
\* completed, the cached list holds exactly what the fetch that completed last
\* obtained (nothing when it failed), never entries of an earlier answer.
C29_LastCompletionWins ==
  (ListMounted /\ fetches = <<>> /\ lastAnswer.st # "none") =>
     IF lastAnswer.st = "ok" THEN SameEntries(notes, lastAnswer.list)
     ELSE notes = <<>>

\* fetches that were in flight together have all completed, the last of them
\* with a list of one note
C29_Witness ==
  /\ ListMounted
  /\ fetches = <<>>
  /\ lastAnswer.st = "ok"
  /\ lastAnswer.raced
  /\ Len(notes) = 1

\* C30: a fetch that fails leaves the list in an explicit error state (error
\* set, list emptied, loading cleared) without touching the session or the view
\* state; a later fetch that succeeds clears the error and fills the list.
C30_FailedFetchShown ==
  /\ [](( ListMounted /\ fetches = <<>> /\ lastAnswer.st = "failed") =>
          (listError # "" /\ notes = <<>> /\ ~listLoading))
  /\ [][(Len(fetches') < Len(fetches) /\ lastAnswer'.st = "failed") =>
          UNCHANGED <<walletVars, appVars>>]_vars
  /\ [][(listError # "" /\ Len(fetches') < Len(fetches) /\ lastAnswer'.st = "ok") =>
          /\ listError' = ""
          /\ ~listLoading'
          /\ SameEntries(notes', lastAnswer'.list)]_vars

\* the only fetch in flight failed while a note is shown
C30_Witness ==
  /\ ListMounted
  /\ fetches = <<>>
  /\ lastAnswer.st = "failed"
  /\ listError # ""
  /\ noteState.selectedNoteId # NoId

\* the checks that call the contract, by their slot of the report
Checks == {"contract", "encryption", "noteCreation"}

\* C22: the checks of a probe run are independent: in every published report
\* each of the view call, the encryption dry-run and the note-count read was
\* made and its slot tells its own answer, whatever the address check and the
\* other calls gave.
C22_ChecksIndependent ==
  diagnosticState.completed =>
     \A c \in Checks :
        /\ diagnosticState.results[c].answer \in Answers
        /\ diagnosticState.results[c].valid = (diagnosticState.results[c].answer = "ok")

\* a report of a run whose view call failed while its encryption dry-run and
\* its note-count read passed
C22_Witness ==
  /\ diagnosticState.completed
  /\ diagnosticState.results.contract.answer = "failed"
  /\ diagnosticState.results.encryption.valid
  /\ diagnosticState.results.noteCreation.valid

\* C23: every published report holds the outcomes of exactly one probe run,
\* also when a second run started while an earlier one was pending.
C23_ReportOfOneRun ==
  /\ Cardinality(RunsOf(diagnosticState.results)) = 1
  /\ diagnosticState.completed => diagnosticState.results.contract.run # 0

\* a run has published its report while another run is still pending
C23_Witness ==
  /\ diagnosticState.completed
  /\ probes # <<>>
  /\ diagnosticState.results.encryption.valid

\* C24: on a contract that confirms at once, a create of title T resolves with
\* the id the contract assigned to the note (the editor hands that id to
\* onSaved), and reading that id back gives T.
C24_CreateReadsBack ==
  [][\A i \in DOMAIN txs :
       (txs[i].op = "create" /\ Mined(i)) =>
          /\ savedTimers' = Append(savedTimers, Len(chain))
          /\ chain'[Len(chain) + 1] = txs[i].title]_vars

\* C25: when onSaved arrives for an update of note n while the App is in
\* Editing(n), the App moves to Viewing(n).
C25_UpdateSavedToViewing ==
  [][\A n \in NoteIds :
       (Editing(n) /\ savedTimers # <<>> /\ Head(savedTimers) = n /\ SavedTimerFires)
          => Viewing(n)']_vars

\* the update of the note being edited is confirmed and its onSaved is due
C25_Witness ==
  \E n \in NoteIds :
     Editing(n) /\ savedTimers # <<>> /\ Head(savedTimers) = n /\ ~edSaving

\* C26: an edit request in Viewing(n) leads to Editing(n), an edit request in
\* Browsing changes nothing, and every step into Editing(n) starts in Viewing(n).
C26_EditOnlyFromViewing ==
  /\ [][EditRequest =>
          /\ \A n \in NoteIds : Viewing(n) => Editing(n)'
          /\ Browsing => UNCHANGED noteState]_vars
  /\ [][\A n \in NoteIds : (~Editing(n) /\ Editing(n)') => Viewing(n)]_vars

\* the note selected last is being edited
C26_Witness ==
  Editing(MaxNoteId) /\ noteState.editorKey = FreshKey

\* C27: a create request leads to Creating and is served only under a session;
\* editing never begins without a session, and no state without a session has
\* the App in its editing mode.
C27_EditingNeedsSession ==
  /\ [](NoSession => ~noteState.isEditing)
  /\ [][handleCreateNote => (~NoSession /\ Creating')]_vars
  /\ [][(~noteState.isEditing /\ noteState'.isEditing) => ~NoSession]_vars

\* the session ended while a save of the editor was on its way
C27_Witness ==
  NoSession /\ txs # <<>>

\* what of a dispatched save belongs to the transaction
Dispatched(tx) ==
  [op |-> tx.op, target |-> tx.target, title |-> tx.title, from |-> tx.from,
   st |-> tx.st]

\* C28: cancel only changes the view state: neither the click nor the delayed
\* onCancel removes or alters a save already dispatched, and such a save is
\* still followed to its confirmation, where it schedules onSaved.
C28_CancelKeepsTransactions ==
  /\ [][(handleCancel \/ CancelTimerFires) =>
          /\ Len(txs') = Len(txs)
          /\ \A i \in DOMAIN txs : Dispatched(txs'[i]) = Dispatched(txs[i])
          /\ UNCHANGED <<savedTimers, appAccount, appProvider>>]_vars
  /\ [][\A i \in DOMAIN txs :
          (~txs[i].live /\ ConfirmResponse(i, "success", NoId, MinedFailed)) =>
             Len(savedTimers') = Len(savedTimers) + 1]_vars

\* the edit was cancelled while its save awaits confirmation
C28_Witness ==
  /\ ~noteState.isEditing
  /\ noteState.editorKey = FreshKey
  /\ \E i \in DOMAIN txs : ~txs[i].live /\ txs[i].st = "pending"

\* a report that holds nothing but the three boolean outcomes of results
Outcomes(results) ==
  [c \in Checks |-> Outcome(results[c].valid, "null", 0)]

\* C31: the recommendations follow from the three boolean outcomes of the
\* current report alone; they are never empty, "working correctly" is among
\* them exactly when all three checks passed, and when the contract check
\* failed they are the single "check deployment" recommendation.
C31_RecommendationsByOutcome ==
  LET results == diagnosticState.results
      recs    == getRecommendations(results)
  IN /\ recs = getRecommendations(Outcomes(results))
     /\ Len(recs) > 0
     /\ (\E i \in DOMAIN recs : recs[i] = "working correctly")
           <=> (\A c \in Checks : results[c].valid)
     /\ ~results.contract.valid => recs = <<"check deployment">>

\* a published report whose contract check and encryption check both failed
\* while the note-count read passed
C31_Witness ==
  /\ diagnosticState.completed
  /\ ~diagnosticState.results.contract.valid
  /\ ~diagnosticState.results.encryption.valid
  /\ diagnosticState.results.noteCreation.valid

\* C32: a re-authentication started by a notification for account B, with a
\* later notification for another account C pending after it, is superseded:
\* its completion never installs the session of B.
C32_LaterNotificationSupersedes ==
  [][\A i \in DOMAIN attempts :
       (/\ attempts[i].kind = "change"
        /\ \E j \in DOMAIN attempts :
             /\ j > i
             /\ attempts[j].kind = "change"
             /\ attempts[j].address # attempts[i].address
        /\ attempts' = RemoveAt(attempts, i))
       => ~(appProvider' # appProvider /\ appAccount' = attempts[i].address)]_vars

\* C33: whenever a session is installed, switchToFluentNetwork has returned
\* true at some earlier point.
C33_SessionNeedsNetwork ==
  [][(appProvider' # appProvider /\ appAccount' # NoAccount) => networkReady]_vars

\* C34: from one editor instance, between a successful confirmation and the
\* delayed onSaved callback that leaves Creating/Editing, no createNote or
\* updateNote is dispatched.
C34_NoDispatchAfterConfirmation ==
  [][savedTimers # <<>> => Len(txs') <= Len(txs)]_vars

\* C36: an editor whose load failed (it shows the load error) dispatches no
\* updateNote.
C36_NoUpdateAfterFailedLoad ==
  [][edError = "load"
       => ~(Len(txs') > Len(txs) /\ txs'[Len(txs')].op = "update")]_vars

\* C39: a read-only editor (the one shown in Viewing(id)) dispatches no
\* transaction: a submit of its form changes neither the editor's state nor
\* the transactions nor the view state.
C39_ReadOnlySubmitIsNoOp ==
  [][~noteState.isEditing => UNCHANGED <<editorVars, txVars, appVars>>]_vars

\* a read-only editor of note 1 under a session, its title filled in: the
\* same submit in edit mode would dispatch updateNote(1)
C39_Witness ==
  /\ ~noteState.isEditing
  /\ noteState.selectedNoteId = 1
  /\ ~Unauthenticated(appProvider, appAccount)
  /\ Trim(edTitle) # ""
  /\ ENABLED SubmitEvent

\* C37: a refresh signal changes nothing but the refresh trigger: the
\* selection, the edit mode, the editor key and the session stay as they
\* were, in every state, without a session too.
C37_RefreshSignalFrame ==
  [][RefreshSignal
       => (/\ noteState' = [noteState EXCEPT
                              !.refreshTrigger = noteState'.refreshTrigger]
           /\ UNCHANGED <<appAccount, appProvider, cwAccount>>)]_vars

\* a refresh signal was emitted after the session ended (handleConnect leaves
\* the trigger undefined), while a note was selected by a late onSaved
C37_Witness ==
  /\ appAccount = NoAccount
  /\ noteState.refreshTrigger \in {"t1", "t2"}
  /\ noteState.selectedNoteId # NoId

\* C35: the answer to a fetch made under another account than the one the
\* App holds now never populates the list.
C35_ListOfCurrentAccount ==
  [][\A i \in DOMAIN fetches :
       (/\ fetches[i].account # appAccount
        /\ fetches' = RemoveAt(fetches, i)
        /\ lastAnswer'.st = "ok"
        /\ appAccount' = appAccount)
       => notes' = notes]_vars

\* C38: the entry the list highlights is the selection of the view state
\* machine, and no entry is highlighted when nothing is selected.
C38_HighlightIsSelection ==
  ListMounted => listSelectedNoteId = noteState.selectedNoteId

====
